---- MODULE Spec2Model ----
(***************************************************************************)
(* Adjacency-list tree engine of the tree API: the node store (table       *)
(* `nodes`), the queries layer (src/src/database/queries.js) and the       *)
(* service layer (src/src/services/treeService.js).                        *)
(***************************************************************************)
EXTENDS Integers, Sequences, FiniteSets, TLC

(* ------------------------------ bounds --------------------------------- *)

\* Number of rows the table ever receives (cap on the AUTOINCREMENT counter).
MaxNodes == 3

(* ------------------------------ values --------------------------------- *)

\* JavaScript null / SQL NULL of parent_id and of a node that was not found.
Null == 0

\* Ids the store can assign.
Ids == 1..MaxNodes

\* Well-formed ids a caller may pass; MaxNodes + 1 never names a stored node.
IdArgs == 1..(MaxNodes + 1)

\* Labels a caller may pass: non-blank short strings, and the empty string.
Labels == {"a", "b"}
BadLabels == {""}

\* parentId values a caller may pass to createNode: null, ids, a non-positive number.
ParentArgs == {Null} \cup IdArgs \cup {-1}

\* The value of `row || null` when no row matched.
NoRow == [id |-> Null, label |-> "", parent_id |-> Null]

\* The requests that can be in progress at the same time.
Tasks == {"t1", "t2"}

VARIABLES
    nodes,    \* the table: id -> [label, parent_id], for the ids that are stored
    seq,      \* sqlite_sequence of the table: the largest id ever assigned
    ret,      \* requests handled one at a time: the response waiting to be delivered
    txn,      \* the transaction of the one shared connection
    tasks,    \* concurrent requests: where each one is, and what it has read so far
    returned, \* how many successful createNode calls have returned each id
    svc,      \* the TreeService singleton: its flags, and its calls of dbInit
    conn      \* the DatabaseConnection singleton: its schema file, and whether it is open

vars == <<nodes, seq, ret, txn, tasks, returned, svc, conn>>

(* --------------------------- the node store ---------------------------- *)

\* SELECT ... FROM nodes WHERE id = ?
getNodeById(db, id) ==
    IF id \in DOMAIN db
    THEN [id |-> id, label |-> db[id].label, parent_id |-> db[id].parent_id]
    ELSE NoRow

\* SELECT COUNT(*) ... WHERE id = ?  > 0
nodeExists(db, id) == id \in DOMAIN db

\* The ids of S in ascending order (ORDER BY id).
RECURSIVE OrderById(_)
OrderById(S) ==
    IF S = {} THEN <<>>
    ELSE LET m == CHOOSE x \in S : \A y \in S : x <= y
         IN <<m>> \o OrderById(S \ {m})

\* SELECT ... WHERE parent_id = ? ORDER BY id
getChildrenByParentId(db, parentId) ==
    LET ids == OrderById({i \in DOMAIN db : db[i].parent_id = parentId})
    IN [k \in 1..Len(ids) |-> getNodeById(db, ids[k])]

\* INSERT INTO nodes (label, parent_id) VALUES (?, ?): the row gets id seq + 1.
InsertRow(db, label, parentId, newId) ==
    [i \in DOMAIN db \cup {newId} |->
        IF i = newId THEN [label |-> label, parent_id |-> parentId] ELSE db[i]]

\* UPDATE nodes SET parent_id = ? WHERE id = ?
UpdateParent(db, id, parentId) ==
    IF id \in DOMAIN db THEN [db EXCEPT ![id].parent_id = parentId] ELSE db

\* DELETE FROM nodes WHERE id IN (...)
DeleteRows(db, ids) == [i \in DOMAIN db \ ids |-> db[i]]

(* ------------------------------ traversal ------------------------------ *)

\* The nodes reached from S by following child links at most n times.
RECURSIVE Below(_, _, _)
Below(db, S, n) ==
    IF n = 0 THEN S
    ELSE LET next == S \cup {i \in DOMAIN db : db[i].parent_id \in S}
         IN IF next = S THEN S ELSE Below(db, next, n - 1)

\* The strict descendants of nodeId, as a set of ids.
DescendantIds(db, nodeId) ==
    Below(db, {i \in DOMAIN db : db[i].parent_id = nodeId}, Cardinality(DOMAIN db))

\* getAllDescendants recurses without a depth guard: it returns only when no node
\* below nodeId (nodeId included) lies on a cycle of parent_id links.
DescendantsReturn(db, nodeId) ==
    /\ nodeId \notin DescendantIds(db, nodeId)
    /\ \A d \in DescendantIds(db, nodeId) : d \notin DescendantIds(db, d)

\* Mutant of getAllDescendants: the direct children only.
DirectChildrenOnly(db, nodeId) == getChildrenByParentId(db, nodeId)

\* getAllDescendants: pre-order expansion of the direct children.
RECURSIVE getAllDescendants(_, _)
RECURSIVE DescendantsOfChildren(_, _)
getAllDescendants(db, nodeId) ==
    DescendantsOfChildren(db, getChildrenByParentId(db, nodeId))
DescendantsOfChildren(db, children) ==
    IF children = <<>> THEN <<>>
    ELSE <<Head(children)>> \o getAllDescendants(db, Head(children).id)
             \o DescendantsOfChildren(db, Tail(children))

\* descendants.map(d => d.id)
IdsOf(rows) == {rows[k].id : k \in 1..Len(rows)}

\* getSubtreeSize: descendants.length
getSubtreeSize(db, nodeId) == Len(getAllDescendants(db, nodeId))

\* The while loop of getAncestors from currentNode on. The loop has no depth
\* guard; fuel counts the iterations a chain without a cycle can need, and a walk
\* that outlasts it never leaves the loop (done = FALSE).
RECURSIVE AncestorsLoop(_, _, _, _)
AncestorsLoop(db, currentNode, ancestors, fuel) ==
    IF currentNode # NoRow /\ currentNode.parent_id # Null
    THEN LET parent == getNodeById(db, currentNode.parent_id)
         IN IF parent # NoRow
            THEN IF fuel = 0 THEN [done |-> FALSE, value |-> ancestors]
                 ELSE AncestorsLoop(db, parent, Append(ancestors, parent), fuel - 1)
            ELSE [done |-> TRUE, value |-> ancestors]
    ELSE [done |-> TRUE, value |-> ancestors]

\* getAncestors returns at all.
AncestorsReturn(db, nodeId) ==
    AncestorsLoop(db, getNodeById(db, nodeId), <<>>, Cardinality(DOMAIN db)).done

\* getAncestors: the rows from the immediate parent upwards.
getAncestors(db, nodeId) ==
    AncestorsLoop(db, getNodeById(db, nodeId), <<>>, Cardinality(DOMAIN db)).value

\* getNodeDepth: ancestors.length
getNodeDepth(db, nodeId) == Len(getAncestors(db, nodeId))

\* maxDepth of getAncestorIds (1000 in the source), kept above the length of
\* every chain without a cycle that the bounded table can hold.
maxDepth == MaxNodes + 2

\* The while loop of getAncestorIds: `currentNodeId && depth < maxDepth`.
RECURSIVE AncestorIdsLoop(_, _, _, _)
AncestorIdsLoop(db, currentNodeId, ancestorIds, depth) ==
    IF currentNodeId # Null /\ depth < maxDepth
    THEN LET node == getNodeById(db, currentNodeId)
         IN IF node = NoRow \/ node.parent_id = Null
            THEN ancestorIds
            ELSE AncestorIdsLoop(db, node.parent_id,
                                 Append(ancestorIds, node.parent_id), depth + 1)
    ELSE ancestorIds

\* getAncestorIds: the parent_id values met on the way up.
getAncestorIds(db, nodeId) == AncestorIdsLoop(db, nodeId, <<>>, 0)

\* ancestorIds.includes(x)
Includes(list, x) == \E k \in 1..Len(list) : list[k] = x

\* Mutant of isAncestor: without the test for potentialAncestorId === nodeId.
IsStrictAncestor(db, potentialAncestorId, nodeId) ==
    Includes(getAncestorIds(db, nodeId), potentialAncestorId)

\* isAncestor
isAncestor(db, potentialAncestorId, nodeId) ==
    IF potentialAncestorId = nodeId THEN TRUE
    ELSE Includes(getAncestorIds(db, nodeId), potentialAncestorId)

\* The while loop of getPathToNode: path.unshift({id, label}), then up while
\* parent_id is truthy. No depth guard: fuel as in AncestorsLoop.
RECURSIVE PathLoop(_, _, _, _)
PathLoop(db, currentNode, path, fuel) ==
    IF currentNode # NoRow
    THEN LET longer == <<[id |-> currentNode.id, label |-> currentNode.label]>> \o path
         IN IF currentNode.parent_id # Null
            THEN IF fuel = 0 THEN [done |-> FALSE, value |-> longer]
                 ELSE PathLoop(db, getNodeById(db, currentNode.parent_id), longer, fuel - 1)
            ELSE [done |-> TRUE, value |-> longer]
    ELSE [done |-> TRUE, value |-> path]

\* getPathToNode returns at all.
PathReturns(db, nodeId) ==
    PathLoop(db, getNodeById(db, nodeId), <<>>, Cardinality(DOMAIN db)).done

\* Mutant of getPathToNode: the ancestors as they are listed, without the node.
PathWithoutNode(db, nodeId) ==
    LET ancestors == getAncestors(db, nodeId)
    IN [k \in 1..Len(ancestors) |-> [id |-> ancestors[k].id, label |-> ancestors[k].label]]

\* getPathToNode: {id, label} from the root down to the node.
getPathToNode(db, nodeId) ==
    PathLoop(db, getNodeById(db, nodeId), <<>>, Cardinality(DOMAIN db)).value

(* ------------------------------ hierarchy ------------------------------ *)

\* The rows of ids in the order ORDER BY parent_id, id (NULL sorts first).
RECURSIVE OrderByParentThenId(_, _)
OrderByParentThenId(db, ids) ==
    IF ids = {} THEN <<>>
    ELSE LET m == CHOOSE x \in ids : \A y \in ids :
                      \/ db[x].parent_id < db[y].parent_id
                      \/ (db[x].parent_id = db[y].parent_id /\ x <= y)
         IN <<getNodeById(db, m)>> \o OrderByParentThenId(db, ids \ {m})

\* getAllNodes: SELECT ... FROM nodes ORDER BY parent_id, id
getAllNodes(db) == OrderByParentThenId(db, DOMAIN db)

\* The rows of list whose parent_id is parentId, in list order.
RECURSIVE RowsWithParent(_, _)
RowsWithParent(list, parentId) ==
    IF list = <<>> THEN <<>>
    ELSE (IF Head(list).parent_id = parentId THEN <<Head(list)>> ELSE <<>>)
             \o RowsWithParent(Tail(list), parentId)

\* Insert row into an id-sorted list after every element that does not compare
\* greater (Array.prototype.sort is stable).
RECURSIVE InsertById(_, _)
InsertById(sorted, row) ==
    IF sorted = <<>> THEN <<row>>
    ELSE IF Head(sorted).id - row.id > 0 THEN <<row>> \o sorted
    ELSE <<Head(sorted)>> \o InsertById(Tail(sorted), row)

\* node.children.sort((a, b) => a.id - b.id)
RECURSIVE SortById(_)
SortById(list) ==
    IF list = <<>> THEN <<>>
    ELSE InsertById(SortById(SubSeq(list, 1, Len(list) - 1)), list[Len(list)])

\* Mutant of PushedChildren: no row is pushed to any children array.
DropChildren(list, rootParentId, id) == <<>>

\* The rows buildHierarchy pushes to the children of node id: those whose
\* parent_id is id, unless parent_id is rootParentId (those go to trees).
PushedChildren(list, rootParentId, id) ==
    IF id = rootParentId THEN <<>> ELSE RowsWithParent(list, id)

\* The tree node built for row, after sortChildrenRecursively.
RECURSIVE TreeNode(_, _, _)
TreeNode(list, rootParentId, row) ==
    LET children == SortById(PushedChildren(list, rootParentId, row.id))
    IN [id |-> row.id, label |-> row.label,
        children |-> [k \in 1..Len(children) |-> TreeNode(list, rootParentId, children[k])]]

\* buildHierarchy: trees holds, in list order, the rows whose parent_id is
\* rootParentId; only the children arrays are sorted.
buildHierarchy(list, rootParentId) ==
    IF Len(list) = 0 THEN <<>>
    ELSE LET roots == RowsWithParent(list, rootParentId)
         IN [k \in 1..Len(roots) |-> TreeNode(list, rootParentId, roots[k])]

\* getAllTrees: buildHierarchy(await getAllNodes())
getAllTrees(db) == buildHierarchy(getAllNodes(db), Null)

(* ----------------------------- validation ------------------------------ *)

\* The for loop of validateTreeStructure over the rest of the list: the orphan
\* check looks in the map of the list, the circular check walks the stored table.
RECURSIVE IssuesOf(_, _, _)
IssuesOf(rest, listIds, db) ==
    IF rest = <<>> THEN <<>>
    ELSE LET node == Head(rest)
             orphaned ==
                 IF node.parent_id # Null /\ node.parent_id \notin listIds
                 THEN <<[type |-> "orphaned_node", nodeId |-> node.id]>> ELSE <<>>
             circular ==
                 IF node.parent_id # Null /\ Includes(getAncestorIds(db, node.id), node.id)
                 THEN <<[type |-> "circular_reference", nodeId |-> node.id]>> ELSE <<>>
         IN orphaned \o circular \o IssuesOf(Tail(rest), listIds, db)

\* validateTreeStructure(nodes) for a list that was passed.
validateTreeStructure(list, db) ==
    LET issues == IssuesOf(list, IdsOf(list), db)
    IN [isValid |-> Len(issues) = 0, issues |-> issues,
        totalNodes |-> Len(list), rootNodes |-> Len(RowsWithParent(list, Null))]

\* validateTreeStructure(): nodes = await treeQueries.getAllNodes()
validateStoredTree(db) == validateTreeStructure(getAllNodes(db), db)

(* ----------------------------- transactions ---------------------------- *)

\* beginTransaction: what a later rollback restores.
beginTransaction(db) == db

\* rollbackTransaction: the table as it was when the transaction began.
rollbackTransaction(db, snapshot) == snapshot

\* The connection holds at most one transaction, whoever began it.
NoTxn == [active |-> FALSE, nodes |-> <<>>, seq |-> 0]

\* BEGIN on the connection; inside a transaction it changes nothing.
ConnBegin(tx, db, sq) ==
    IF tx.active THEN tx ELSE [active |-> TRUE, nodes |-> beginTransaction(db), seq |-> sq]

\* ROLLBACK on the connection: the table and its sequence as they were at BEGIN;
\* outside a transaction it changes nothing.
ConnRollback(tx, db, sq) ==
    IF tx.active
    THEN [nodes |-> rollbackTransaction(db, tx.nodes), seq |-> tx.seq]
    ELSE [nodes |-> db, seq |-> sq]

(* ------------------------- queries: createNode ------------------------- *)

\* Mutant of queries.createNode: the INSERT without the parent check.
CreateNodeUnchecked(db, sq, label, parentId) ==
    LET newId == sq + 1
        db2 == InsertRow(db, label, parentId, newId)
    IN [status |-> "ok", db |-> db2, seq |-> newId, node |-> getNodeById(db2, newId)]

\* queries.createNode: parent check, INSERT, then read the inserted row back.
Queries_createNode(db, sq, label, parentId) ==
    IF parentId # Null /\ ~nodeExists(db, parentId)
    THEN [status |-> "parent_not_found", db |-> db, seq |-> sq, node |-> NoRow]
    ELSE LET newId == sq + 1
             db2 == InsertRow(db, label, parentId, newId)
         IN [status |-> "ok", db |-> db2, seq |-> newId, node |-> getNodeById(db2, newId)]

(* ------------------------- queries: deleteNode ------------------------- *)

\* queries.deleteNode: the node and all its descendants; returns result.changes.
Queries_deleteNode(db, id) ==
    LET descendants == getAllDescendants(db, id)
        allIds == {id} \cup IdsOf(descendants)
    IN [db |-> DeleteRows(db, allIds), count |-> Cardinality(allIds \cap DOMAIN db)]

(* --------------------- queries: moveNodeAndSubtree --------------------- *)

\* Which statement of a move the store fails: none, the first or the last UPDATE
\* issued, or the COMMIT.
Faults == {"none", "first_update", "last_update", "commit"}

\* The index of the failing UPDATE among `updates` (0: none of them).
FaultIndex(fault, updates) ==
    IF fault = "first_update" THEN 1
    ELSE IF fault = "last_update" THEN Len(updates)
    ELSE 0

\* The loop that fills parentIdMap: a descendant whose parent is in the map gets
\* the value its parent has there.
RECURSIVE RemapDescendants(_, _)
RemapDescendants(map, descendants) ==
    IF descendants = <<>> THEN map
    ELSE LET d == Head(descendants)
             map2 == IF d.parent_id \in DOMAIN map
                     THEN [i \in DOMAIN map \cup {d.id} |->
                              IF i = d.id THEN map[d.parent_id] ELSE map[i]]
                     ELSE map
         IN RemapDescendants(map2, Tail(descendants))

parentIdMap(sourceNodeId, newParentId, descendants) ==
    RemapDescendants([i \in {sourceNodeId} |-> newParentId], descendants)

\* The UPDATE statements the move issues, in order: the source first, then every
\* descendant that has an entry in parentIdMap.
RECURSIVE DescendantUpdates(_, _)
DescendantUpdates(map, descendants) ==
    IF descendants = <<>> THEN <<>>
    ELSE LET d == Head(descendants)
         IN (IF d.id \in DOMAIN map
             THEN <<[id |-> d.id, parent_id |-> map[d.id]]>> ELSE <<>>)
            \o DescendantUpdates(map, Tail(descendants))

MoveUpdates(sourceNodeId, newParentId, descendants) ==
    <<[id |-> sourceNodeId, parent_id |-> newParentId]>>
        \o DescendantUpdates(parentIdMap(sourceNodeId, newParentId, descendants), descendants)

\* The statements run in the order issued; the one the store fails changes nothing.
RECURSIVE RunUpdates(_, _, _, _)
RunUpdates(db, updates, k, failing) ==
    IF k > Len(updates) THEN db
    ELSE RunUpdates(IF k = failing THEN db
                    ELSE UpdateParent(db, updates[k].id, updates[k].parent_id),
                    updates, k + 1, failing)

\* Mutant of the catch block: rethrow without rolling back.
MoveCatchNoRollback(db, snapshot) == db

\* The catch block of queries.moveNodeAndSubtree: roll back, then rethrow.
MoveCatch(db, snapshot) == rollbackTransaction(db, snapshot)

Queries_moveNodeAndSubtree(db, sourceNodeId, newParentId, fault) ==
    LET snapshot == beginTransaction(db)
        sourceNode == getNodeById(db, sourceNodeId)
    IN IF sourceNode = NoRow
       THEN [status |-> "source_not_found", db |-> MoveCatch(db, snapshot), node |-> NoRow]
       ELSE LET descendants == getAllDescendants(db, sourceNodeId)
                updates == MoveUpdates(sourceNodeId, newParentId, descendants)
                written == RunUpdates(db, updates, 1, FaultIndex(fault, updates))
            IN IF fault # "none"
               THEN [status |-> "store_failure", db |-> MoveCatch(written, snapshot),
                     node |-> NoRow]
               ELSE [status |-> "ok", db |-> written,
                     node |-> getNodeById(written, sourceNodeId)]

(* ------------------------------- service ------------------------------- *)

\* validateNodeInput: the label, then the parent id.
validateNodeInput(label, parentId) ==
    IF label \in BadLabels THEN "invalid_label"
    ELSE IF parentId # Null /\ parentId <= 0 THEN "invalid_parent"
    ELSE "ok"

\* service.createNode
Service_createNode(db, sq, label, parentId) ==
    LET v == validateNodeInput(label, parentId)
    IN IF v # "ok" THEN [status |-> v, db |-> db, seq |-> sq, node |-> NoRow]
       ELSE Queries_createNode(db, sq, label, parentId)

\* Mutant of service.moveNodeAndSubtree: no check against the current parent.
MoveWithoutRedundantCheck(db, sourceNodeId, newParentId, fault) ==
    LET sourceNode == getNodeById(db, sourceNodeId)
        rejected(why) == [status |-> why, db |-> db, node |-> NoRow]
    IN IF sourceNodeId = newParentId THEN rejected("self_move")
       ELSE IF newParentId # Null
               /\ newParentId \in IdsOf(getAllDescendants(db, sourceNodeId))
       THEN rejected("descendant_move")
       ELSE IF sourceNode = NoRow THEN rejected("type_error")
       ELSE Queries_moveNodeAndSubtree(db, sourceNodeId, newParentId, fault)

\* service.moveNodeAndSubtree: the checks in the order the code makes them.  A
\* missing source is not tested for: reading sourceNode.parent_id of null throws
\* a TypeError.
Service_moveNodeAndSubtree(db, sourceNodeId, newParentId, fault) ==
    LET sourceNode == getNodeById(db, sourceNodeId)
        rejected(why) == [status |-> why, db |-> db, node |-> NoRow]
    IN IF sourceNodeId = newParentId THEN rejected("self_move")
       ELSE IF newParentId # Null
               /\ newParentId \in IdsOf(getAllDescendants(db, sourceNodeId))
       THEN rejected("descendant_move")
       ELSE IF sourceNode = NoRow THEN rejected("type_error")
       ELSE IF sourceNode.parent_id = newParentId THEN rejected("noop_move")
       ELSE Queries_moveNodeAndSubtree(db, sourceNodeId, newParentId, fault)

\* The call returns: every getAllDescendants walk it makes comes to an end.
MoveReturns(db, sourceNodeId, newParentId) ==
    IF sourceNodeId = newParentId THEN TRUE
    ELSE IF newParentId # Null THEN DescendantsReturn(db, sourceNodeId)
    ELSE IF sourceNodeId \notin DOMAIN db THEN TRUE
    ELSE IF db[sourceNodeId].parent_id = Null THEN TRUE
    ELSE DescendantsReturn(db, sourceNodeId)

(* ------------------------------- actions ------------------------------- *)

\* No response is waiting to be delivered.
NoCall ==
    [op |-> "none", src |-> Null, dst |-> Null, label |-> "", status |-> "",
     node |-> NoRow, count |-> 0, before |-> <<>>]

\* A request slot with no request in it.
IdleTask ==
    [pc |-> "idle", op |-> "none", src |-> Null, dst |-> Null, label |-> "",
     sourceNode |-> NoRow, descendants |-> <<>>, newId |-> Null,
     status |-> "", node |-> NoRow]

NoneReturned == [i \in Ids |-> 0]

\* TreeService's constructor: neither flag is set.  Kept with the flags, for the
\* statements about them: how many calls of dbInit.initialize() were made since
\* construction or reset() and not rejected, and whether close() has succeeded
\* since construction or reset().
NewService ==
    [initialized |-> FALSE, isShutdown |-> FALSE, initCalls |-> 0, closed |-> FALSE]

\* The schema file the DatabaseConnection constructor picks: schema-test.sql when
\* NODE_ENV is test or under Jest, schema.sql otherwise.
SchemaFiles == {"schema.sql", "schema-test.sql"}

\* The connection of a test run, open on its database.
TestConnection == [schemaPath |-> "schema-test.sql", open |-> TRUE]

Init ==
    /\ nodes = <<>>
    /\ seq = 0
    /\ ret = NoCall
    /\ txn = NoTxn
    /\ tasks = [t \in Tasks |-> IdleTask]
    /\ returned = NoneReturned
    /\ svc = NewService
    /\ conn = TestConnection

concurrent == <<txn, tasks, returned, svc, conn>>

\* One createNode request, from the call to its return.
CreateNode ==
    /\ ret = NoCall
    /\ \E label \in Labels \cup BadLabels, parentId \in ParentArgs :
        LET r == Service_createNode(nodes, seq, label, parentId)
        IN /\ r.seq <= MaxNodes
           /\ nodes' = r.db
           /\ seq' = r.seq
           /\ ret' = [op |-> "create", src |-> Null, dst |-> parentId, label |-> label,
                      status |-> r.status, node |-> r.node, count |-> 0,
                      before |-> nodes]
           /\ UNCHANGED concurrent

\* One deleteNode call.
DeleteNode ==
    /\ ret = NoCall
    /\ \E id \in IdArgs :
        /\ DescendantsReturn(nodes, id)
        /\ LET r == Queries_deleteNode(nodes, id)
           IN /\ nodes' = r.db
              /\ seq' = seq
              /\ ret' = [op |-> "delete", src |-> id, dst |-> Null, label |-> "",
                         status |-> "ok", node |-> NoRow, count |-> r.count,
                         before |-> nodes]
              /\ UNCHANGED concurrent

\* One moveNodeAndSubtree request, from the call to its return.  The store can
\* fail a statement only in a call that gets as far as issuing one.
MoveNodeAndSubtree ==
    /\ ret = NoCall
    /\ \E sourceNodeId \in IdArgs, newParentId \in {Null} \cup IdArgs :
        /\ MoveReturns(nodes, sourceNodeId, newParentId)
        /\ \E fault \in Faults :
            LET r == Service_moveNodeAndSubtree(nodes, sourceNodeId, newParentId, fault)
            IN /\ fault # "none" => r.status = "store_failure"
               /\ nodes' = r.db
               /\ seq' = seq
               /\ ret' = [op |-> "move", src |-> sourceNodeId, dst |-> newParentId,
                          label |-> "", status |-> r.status, node |-> r.node,
                          count |-> 0, before |-> nodes]
               /\ UNCHANGED concurrent

\* The response is delivered to the caller; the next request can be handled.
Return ==
    /\ ret # NoCall
    /\ ret' = NoCall
    /\ UNCHANGED <<nodes, seq>>
    /\ UNCHANGED concurrent

Next == CreateNode \/ DeleteNode \/ MoveNodeAndSubtree \/ Return

\* Requests handled one at a time.
Spec == Init /\ [][Next]_vars

\* The same, without deleteNode.
NextCreateMove == CreateNode \/ MoveNodeAndSubtree \/ Return
SpecCreateMove == Init /\ [][NextCreateMove]_vars


(* ------------------------- read-only operations ------------------------ *)

\* The labels of the rows of a table that a read is applied to: one per id.
LabelOf(i) == IF i % 2 = 1 THEN "a" ELSE "b"

\* Every content of the table over the ids: any subset of the ids stored, each
\* parent_id null, a stored id, an id that is not stored, or the node's own id.
AnyStores ==
    UNION {[S -> {Null} \cup IdArgs] : S \in SUBSET Ids}

StoreOf(parents) ==
    [i \in DOMAIN parents |-> [label |-> LabelOf(i), parent_id |-> parents[i]]]

\* A read is applied to a table with any content.
InitRead ==
    /\ \E parents \in AnyStores : nodes = StoreOf(parents)
    /\ seq = MaxNodes
    /\ ret = NoCall
    /\ txn = NoTxn
    /\ tasks = [t \in Tasks |-> IdleTask]
    /\ returned = NoneReturned
    /\ svc = NewService
    /\ conn = TestConnection

\* What a read returned: the call, the list it was given, its value.
Answer(op, src, dst, list, value) ==
    [op |-> op, src |-> src, dst |-> dst, label |-> "", status |-> "ok",
     node |-> NoRow, count |-> 0, before |-> nodes, list |-> list, value |-> value]

\* Every ordering of the rows of list.
RECURSIVE Orderings(_)
Orderings(list) ==
    IF list = <<>> THEN {<<>>}
    ELSE UNION {{<<list[k]>> \o rest :
                    rest \in Orderings([j \in 1..(Len(list) - 1) |->
                                           IF j < k THEN list[j] ELSE list[j + 1]])} :
                k \in 1..Len(list)}

GetAllTrees ==
    /\ ret = NoCall
    /\ ret' = Answer("getAllTrees", Null, Null, <<>>, getAllTrees(nodes))
    /\ UNCHANGED <<nodes, seq>>
    /\ UNCHANGED concurrent

\* buildHierarchy on the rows of the table in any order, under any root parent.
BuildHierarchy ==
    /\ ret = NoCall
    /\ \E list \in Orderings(getAllNodes(nodes)), rootParentId \in {Null} \cup Ids :
        ret' = Answer("buildHierarchy", Null, rootParentId, list,
                      buildHierarchy(list, rootParentId))
    /\ UNCHANGED <<nodes, seq>>
    /\ UNCHANGED concurrent

NextHierarchy == GetAllTrees \/ BuildHierarchy \/ Return
SpecHierarchy == InitRead /\ [][NextHierarchy]_vars

\* The traversal reads of the queries layer and of the service. A call whose
\* loop never ends has no answer: its action is not enabled.
GetAncestors ==
    /\ ret = NoCall
    /\ \E nodeId \in IdArgs :
        /\ AncestorsReturn(nodes, nodeId)
        /\ ret' = Answer("getAncestors", nodeId, Null, <<>>, getAncestors(nodes, nodeId))
    /\ UNCHANGED <<nodes, seq>>
    /\ UNCHANGED concurrent

GetAncestorIds ==
    /\ ret = NoCall
    /\ \E nodeId \in IdArgs :
        ret' = Answer("getAncestorIds", nodeId, Null, <<>>, getAncestorIds(nodes, nodeId))
    /\ UNCHANGED <<nodes, seq>>
    /\ UNCHANGED concurrent

IsAncestor ==
    /\ ret = NoCall
    /\ \E potentialAncestorId \in IdArgs, nodeId \in IdArgs :
        ret' = Answer("isAncestor", potentialAncestorId, nodeId, <<>>,
                      isAncestor(nodes, potentialAncestorId, nodeId))
    /\ UNCHANGED <<nodes, seq>>
    /\ UNCHANGED concurrent

GetNodeDepth ==
    /\ ret = NoCall
    /\ \E nodeId \in IdArgs :
        /\ AncestorsReturn(nodes, nodeId)
        /\ ret' = Answer("getNodeDepth", nodeId, Null, <<>>, getNodeDepth(nodes, nodeId))
    /\ UNCHANGED <<nodes, seq>>
    /\ UNCHANGED concurrent

GetPathToNode ==
    /\ ret = NoCall
    /\ \E nodeId \in IdArgs :
        /\ PathReturns(nodes, nodeId)
        /\ ret' = Answer("getPathToNode", nodeId, Null, <<>>, getPathToNode(nodes, nodeId))
    /\ UNCHANGED <<nodes, seq>>
    /\ UNCHANGED concurrent

GetSubtreeSize ==
    /\ ret = NoCall
    /\ \E nodeId \in IdArgs :
        /\ DescendantsReturn(nodes, nodeId)
        /\ ret' = Answer("getSubtreeSize", nodeId, Null, <<>>, getSubtreeSize(nodes, nodeId))
    /\ UNCHANGED <<nodes, seq>>
    /\ UNCHANGED concurrent

NextTraverse ==
    \/ GetAncestors
    \/ GetAncestorIds
    \/ IsAncestor
    \/ GetNodeDepth
    \/ GetPathToNode
    \/ GetSubtreeSize
    \/ Return

\* Traversals of a table with any content.
SpecTraverse == InitRead /\ [][NextTraverse]_vars

NextReach == Next \/ GetNodeDepth \/ GetPathToNode \/ GetSubtreeSize

\* Traversals of the tables that createNode, moveNodeAndSubtree and deleteNode
\* build from the empty one.
SpecReach == Init /\ [][NextReach]_vars

\* validateTreeStructure() with no argument: the rows of the table are examined.
ValidateStoredTree ==
    /\ ret = NoCall
    /\ ret' = Answer("validateTreeStructure", Null, Null, getAllNodes(nodes),
                     validateStoredTree(nodes))
    /\ UNCHANGED <<nodes, seq>>
    /\ UNCHANGED concurrent

\* validateTreeStructure(nodes) with a list of rows, which need not be the rows
\* of the table.
ValidateTreeStructure ==
    /\ ret = NoCall
    /\ \E parents \in AnyStores :
        LET list == getAllNodes(StoreOf(parents))
        IN ret' = Answer("validateTreeStructure", Null, Null, list,
                         validateTreeStructure(list, nodes))
    /\ UNCHANGED <<nodes, seq>>
    /\ UNCHANGED concurrent

NextCreateValidate == CreateNode \/ ValidateStoredTree \/ Return

\* createNode calls on the empty table, and validations of what they built.
SpecCreateValidate == Init /\ [][NextCreateValidate]_vars

NextValidate == ValidateStoredTree \/ ValidateTreeStructure \/ Return

\* Validations of any list against a table with any content.
SpecValidate == InitRead /\ [][NextValidate]_vars

(* ----------------- concurrent requests, one await at a time ------------- *)

\* A request ends: what it reports, and the row it returns.
Finished(task, status, node) ==
    [task EXCEPT !.pc = "done", !.status = status, !.node = node]

\* result.id of the INSERT: the lastID of the statement itself.
ConnectionLastId(statementId, lastAssigned) == lastAssigned
InsertedId(statementId, lastAssigned) == statementId

\* service.createNode is called: validateNodeInput runs before the first await.
CallCreate(t) ==
    /\ tasks[t].pc = "idle"
    /\ \E label \in Labels \cup BadLabels, parentId \in ParentArgs :
        LET v == validateNodeInput(label, parentId)
            call == [IdleTask EXCEPT !.op = "create", !.label = label, !.dst = parentId]
        IN tasks' = [tasks EXCEPT ![t] =
                IF v # "ok" THEN Finished(call, v, NoRow)
                ELSE IF parentId # Null THEN [call EXCEPT !.pc = "c_exists"]
                ELSE [call EXCEPT !.pc = "c_insert"]]
    /\ UNCHANGED <<nodes, seq, ret, txn, returned, svc, conn>>

\* queries.createNode: await this.nodeExists(parentId)
CreateCheckParent(t) ==
    /\ tasks[t].pc = "c_exists"
    /\ tasks' = [tasks EXCEPT ![t] =
            IF nodeExists(nodes, tasks[t].dst)
            THEN [tasks[t] EXCEPT !.pc = "c_insert"]
            ELSE Finished(tasks[t], "parent_not_found", NoRow)]
    /\ UNCHANGED <<nodes, seq, ret, txn, returned, svc, conn>>

\* queries.createNode: await dbConnection.run(INSERT ...)
CreateInsert(t) ==
    /\ tasks[t].pc = "c_insert"
    /\ seq < MaxNodes
    /\ nodes' = InsertRow(nodes, tasks[t].label, tasks[t].dst, seq + 1)
    /\ seq' = seq + 1
    /\ tasks' = [tasks EXCEPT ![t] = [tasks[t] EXCEPT !.pc = "c_read", !.newId = seq + 1]]
    /\ UNCHANGED <<ret, txn, returned, svc, conn>>

\* queries.createNode: return await this.getNodeById(result.id); the service
\* then reads newNode.id, which throws a TypeError when the row is gone.
CreateReadBack(t) ==
    /\ tasks[t].pc = "c_read"
    /\ LET newNode == getNodeById(nodes, InsertedId(tasks[t].newId, seq))
       IN tasks' = [tasks EXCEPT ![t] =
               IF newNode = NoRow THEN Finished(tasks[t], "type_error", NoRow)
               ELSE Finished(tasks[t], "ok", newNode)]
    /\ UNCHANGED <<nodes, seq, ret, txn, returned, svc, conn>>

\* service.moveNodeAndSubtree: await getNodeById(sourceNodeId), then the checks
\* that need no further read.
MoveGetSource(t) ==
    /\ tasks[t].pc = "m_get"
    /\ LET sourceNode == getNodeById(nodes, tasks[t].src)
           task == [tasks[t] EXCEPT !.sourceNode = sourceNode]
       IN tasks' = [tasks EXCEPT ![t] =
               IF task.src = task.dst THEN Finished(task, "self_move", NoRow)
               ELSE IF task.dst # Null THEN [task EXCEPT !.pc = "m_desc"]
               ELSE IF sourceNode = NoRow THEN Finished(task, "type_error", NoRow)
               ELSE IF sourceNode.parent_id = task.dst THEN Finished(task, "noop_move", NoRow)
               ELSE [task EXCEPT !.pc = "q_begin"]]
    /\ UNCHANGED <<nodes, seq, ret, txn, returned, svc, conn>>

\* service.moveNodeAndSubtree: await getAllDescendants(sourceNodeId) (the whole
\* walk as one read of the table), then the descendant and current-parent checks.
MoveCheckDescendants(t) ==
    /\ tasks[t].pc = "m_desc"
    /\ DescendantsReturn(nodes, tasks[t].src)
    /\ LET task == tasks[t]
           descendantIds == IdsOf(getAllDescendants(nodes, task.src))
       IN tasks' = [tasks EXCEPT ![t] =
               IF task.dst \in descendantIds THEN Finished(task, "descendant_move", NoRow)
               ELSE IF task.sourceNode = NoRow THEN Finished(task, "type_error", NoRow)
               ELSE IF task.sourceNode.parent_id = task.dst
               THEN Finished(task, "noop_move", NoRow)
               ELSE [task EXCEPT !.pc = "q_begin"]]
    /\ UNCHANGED <<nodes, seq, ret, txn, returned, svc, conn>>

\* queries.moveNodeAndSubtree: await dbConnection.beginTransaction()
MoveBegin(t) ==
    /\ tasks[t].pc = "q_begin"
    /\ txn' = ConnBegin(txn, nodes, seq)
    /\ tasks' = [tasks EXCEPT ![t] = [tasks[t] EXCEPT !.pc = "q_get"]]
    /\ UNCHANGED <<nodes, seq, ret, returned, svc, conn>>

\* queries.moveNodeAndSubtree: await this.getNodeById(sourceNodeId)
MoveReadSource(t) ==
    /\ tasks[t].pc = "q_get"
    /\ LET sourceNode == getNodeById(nodes, tasks[t].src)
       IN tasks' = [tasks EXCEPT ![t] =
               IF sourceNode = NoRow
               THEN [tasks[t] EXCEPT !.pc = "q_catch", !.status = "source_not_found"]
               ELSE [tasks[t] EXCEPT !.pc = "q_desc", !.sourceNode = sourceNode]]
    /\ UNCHANGED <<nodes, seq, ret, txn, returned, svc, conn>>

\* queries.moveNodeAndSubtree: await this.getAllDescendants(sourceNodeId)
MoveReadDescendants(t) ==
    /\ tasks[t].pc = "q_desc"
    /\ DescendantsReturn(nodes, tasks[t].src)
    /\ tasks' = [tasks EXCEPT ![t] =
            [tasks[t] EXCEPT !.pc = "q_update",
                             !.descendants = getAllDescendants(nodes, tasks[t].src)]]
    /\ UNCHANGED <<nodes, seq, ret, txn, returned, svc, conn>>

\* queries.moveNodeAndSubtree: the UPDATEs, issued together and run in that
\* order; await Promise.all(update) throws when the store fails one of them.
MoveWrite(t) ==
    /\ tasks[t].pc = "q_update"
    /\ \E fault \in {"none", "first_update", "last_update"} :
        LET updates == MoveUpdates(tasks[t].src, tasks[t].dst, tasks[t].descendants)
        IN /\ nodes' = RunUpdates(nodes, updates, 1, FaultIndex(fault, updates))
           /\ tasks' = [tasks EXCEPT ![t] =
                   IF fault = "none" THEN [tasks[t] EXCEPT !.pc = "q_commit"]
                   ELSE [tasks[t] EXCEPT !.pc = "q_catch", !.status = "store_failure"]]
    /\ UNCHANGED <<seq, ret, txn, returned, svc, conn>>

\* queries.moveNodeAndSubtree: await dbConnection.commitTransaction()
MoveCommit(t) ==
    /\ tasks[t].pc = "q_commit"
    /\ \E fault \in {"none", "commit"} :
        IF fault = "none"
        THEN /\ txn' = NoTxn
             /\ tasks' = [tasks EXCEPT ![t] = [tasks[t] EXCEPT !.pc = "q_ret"]]
        ELSE /\ txn' = txn
             /\ tasks' = [tasks EXCEPT ![t] =
                     [tasks[t] EXCEPT !.pc = "q_catch", !.status = "store_failure"]]
    /\ UNCHANGED <<nodes, seq, ret, returned, svc, conn>>

\* queries.moveNodeAndSubtree: return await this.getNodeById(sourceNodeId)
MoveReadResult(t) ==
    /\ tasks[t].pc = "q_ret"
    /\ tasks' = [tasks EXCEPT ![t] =
            Finished(tasks[t], "ok", getNodeById(nodes, tasks[t].src))]
    /\ UNCHANGED <<nodes, seq, ret, txn, returned, svc, conn>>

\* queries.moveNodeAndSubtree, catch: await dbConnection.rollbackTransaction()
MoveRollback(t) ==
    /\ tasks[t].pc = "q_catch"
    /\ LET back == ConnRollback(txn, nodes, seq)
       IN /\ nodes' = back.nodes
          /\ seq' = back.seq
    /\ txn' = NoTxn
    /\ tasks' = [tasks EXCEPT ![t] = Finished(tasks[t], tasks[t].status, NoRow)]
    /\ UNCHANGED <<ret, returned, svc, conn>>

\* The response of a finished request is delivered.
TaskReturn(t) ==
    /\ tasks[t].pc = "done"
    /\ returned' =
          IF tasks[t].op = "create" /\ tasks[t].status = "ok" /\ tasks[t].node.id \in Ids
          THEN [returned EXCEPT ![tasks[t].node.id] = @ + 1]
          ELSE returned
    /\ tasks' = [tasks EXCEPT ![t] = IdleTask]
    /\ UNCHANGED <<nodes, seq, ret, txn, svc, conn>>

(* ------------------- traversals, one await at a time ------------------- *)

\* A traversal in progress: the node it looks at, the list it has built and
\* the depth it has counted. The loops without a depth guard count nothing; for
\* them depth is the parity of the turns taken, so that every turn is a step.
Walker(op, pc, nodeId, current, list, depth) ==
    [pc |-> pc, op |-> op, src |-> nodeId, dst |-> Null, label |-> "",
     sourceNode |-> NoRow, descendants |-> <<>>, newId |-> Null, status |-> "",
     node |-> NoRow, current |-> current, list |-> list, depth |-> depth]

\* The list a loop without a depth guard has built. A list longer than the table
\* is only built by a walk that never returns it, and is kept at that length.
Held(list) == IF Len(list) > MaxNodes + 1 THEN SubSeq(list, 1, MaxNodes + 1) ELSE list

TraversalOps == {"getAncestors", "getAncestorIds", "getPathToNode"}

\* A traversal is called. Traversals write nothing, so one at a time shows
\* every outcome.
CallTraversal(t) ==
    /\ \A u \in Tasks : tasks[u].pc = "idle"
    /\ \E op \in TraversalOps, nodeId \in IdArgs :
        tasks' = [tasks EXCEPT ![t] =
            IF op = "getAncestorIds"
            THEN Walker(op, "ids_loop", nodeId, nodeId, <<>>, 0)
            ELSE Walker(op, "first", nodeId, NoRow, <<>>, 0)]
    /\ UNCHANGED <<nodes, seq, ret, txn, returned, svc, conn>>

\* getAncestors / getPathToNode: currentNode = await getNodeById(nodeId)
WalkFirst(t) ==
    /\ tasks[t].pc = "first"
    /\ tasks' = [tasks EXCEPT ![t] =
            [tasks[t] EXCEPT !.current = getNodeById(nodes, tasks[t].src),
                             !.pc = IF tasks[t].op = "getAncestors"
                                    THEN "ancestors_loop" ELSE "path_loop"]]
    /\ UNCHANGED <<nodes, seq, ret, txn, returned, svc, conn>>

\* getAncestors: one turn of while (currentNode && currentNode.parent_id !== null)
AncestorsTurn(t) ==
    /\ tasks[t].pc = "ancestors_loop"
    /\ LET task == tasks[t]
           parent == getNodeById(nodes, task.current.parent_id)
       IN tasks' = [tasks EXCEPT ![t] =
               IF task.current # NoRow /\ task.current.parent_id # Null /\ parent # NoRow
               THEN [task EXCEPT !.list = Held(Append(task.list, parent)),
                                 !.current = parent,
                                 !.depth = (task.depth + 1) % 2]
               ELSE Finished(task, "ok", NoRow)]
    /\ UNCHANGED <<nodes, seq, ret, txn, returned, svc, conn>>

\* getAncestorIds: one turn of while (currentNodeId && depth < maxDepth)
AncestorIdsTurn(t) ==
    /\ tasks[t].pc = "ids_loop"
    /\ LET task == tasks[t]
           node == getNodeById(nodes, task.current)
       IN tasks' = [tasks EXCEPT ![t] =
               IF task.current # Null /\ task.depth < maxDepth
                  /\ node # NoRow /\ node.parent_id # Null
               THEN [task EXCEPT !.list = Append(task.list, node.parent_id),
                                 !.current = node.parent_id,
                                 !.depth = task.depth + 1]
               ELSE Finished(task, "ok", NoRow)]
    /\ UNCHANGED <<nodes, seq, ret, txn, returned, svc, conn>>

\* getPathToNode: one turn of while (currentNode)
PathTurn(t) ==
    /\ tasks[t].pc = "path_loop"
    /\ LET task == tasks[t]
           longer == Held(<<[id |-> task.current.id, label |-> task.current.label]>>
                              \o task.list)
       IN tasks' = [tasks EXCEPT ![t] =
               IF task.current = NoRow THEN Finished(task, "ok", NoRow)
               ELSE IF task.current.parent_id # Null
               THEN [task EXCEPT !.list = longer,
                                 !.current = getNodeById(nodes, task.current.parent_id),
                                 !.depth = (task.depth + 1) % 2]
               ELSE Finished([task EXCEPT !.list = longer], "ok", NoRow)]
    /\ UNCHANGED <<nodes, seq, ret, txn, returned, svc, conn>>

\* The next await of the traversal of t completes.
WalkStep(t) == WalkFirst(t) \/ AncestorsTurn(t) \/ AncestorIdsTurn(t) \/ PathTurn(t)

NextWalk ==
    \E t \in Tasks :
        \/ CallTraversal(t)
        \/ WalkFirst(t)
        \/ AncestorsTurn(t)
        \/ AncestorIdsTurn(t)
        \/ PathTurn(t)
        \/ TaskReturn(t)

\* Traversals of a table with any content; the store answers every read.
SpecWalk ==
    /\ InitRead
    /\ [][NextWalk]_vars
    /\ \A t \in Tasks : WF_vars(WalkStep(t))

(* --------------------- concurrent createNode requests ------------------ *)

NextCreate ==
    \E t \in Tasks :
        \/ CallCreate(t)
        \/ CreateCheckParent(t)
        \/ CreateInsert(t)
        \/ CreateReadBack(t)
        \/ TaskReturn(t)

\* createNode requests of two clients, interleaved at every await.
SpecCreate == Init /\ [][NextCreate]_vars

(* ------------------ two concurrent moveNodeAndSubtree ------------------ *)

\* The stores that n createNode calls leave: every parent was stored before its child.
CreatedStores ==
    UNION {{[i \in 1..n |-> [label |-> "a", parent_id |-> f[i]]] :
                f \in {g \in [1..n -> 0..(n - 1)] : \A i \in 1..n : g[i] < i}} :
           n \in 2..MaxNodes}

\* A move that passes every check of the service against db, to a parent that is
\* stored (or to null).
LegalMove(db, sourceNodeId, newParentId) ==
    /\ sourceNodeId \in DOMAIN db
    /\ newParentId \in DOMAIN db \cup {Null}
    /\ sourceNodeId # newParentId
    /\ newParentId \notin DescendantIds(db, sourceNodeId)
    /\ db[sourceNodeId].parent_id # newParentId

\* Two clients each ask for a move that is legal against the same store.
InitMoveRace ==
    /\ nodes \in CreatedStores
    /\ seq = Cardinality(DOMAIN nodes)
    /\ ret = NoCall
    /\ txn = NoTxn
    /\ returned = NoneReturned
    /\ svc = NewService
    /\ conn = TestConnection
    /\ tasks \in {tk \in [Tasks -> {[IdleTask EXCEPT !.pc = "m_get", !.op = "move",
                                                      !.src = s, !.dst = p] :
                                      s \in Ids, p \in {Null} \cup Ids}] :
                    \A t \in Tasks : LegalMove(nodes, tk[t].src, tk[t].dst)}

NextMoveRace ==
    \E t \in Tasks :
        \/ MoveGetSource(t)
        \/ MoveCheckDescendants(t)
        \/ MoveBegin(t)
        \/ MoveReadSource(t)
        \/ MoveReadDescendants(t)
        \/ MoveWrite(t)
        \/ MoveCommit(t)
        \/ MoveReadResult(t)
        \/ MoveRollback(t)
        \/ TaskReturn(t)

SpecMoveRace == InitMoveRace /\ [][NextMoveRace]_vars

(* ------------------------- structural predicates ----------------------- *)

\* The ancestors of id: the nodes reached by following parent_id links upwards.
RECURSIVE Above(_, _, _)
Above(db, S, n) ==
    IF n = 0 THEN S
    ELSE LET next == S \cup ({db[i].parent_id : i \in S \cap DOMAIN db} \ {Null})
         IN IF next = S THEN S ELSE Above(db, next, n - 1)

AncestorIdSet(db, id) ==
    IF id \in DOMAIN db /\ db[id].parent_id # Null
    THEN Above(db, {db[id].parent_id}, Cardinality(DOMAIN db) + 1)
    ELSE {}

NoOrphans(db) ==
    \A n \in DOMAIN db : db[n].parent_id # Null => db[n].parent_id \in DOMAIN db

NoCycles(db) == \A n \in DOMAIN db : n \notin AncestorIdSet(db, n)

\* Every node other than `except` is stored with the same parent_id in both.
SameParentsExcept(db1, db2, except) ==
    /\ DOMAIN db1 = DOMAIN db2
    /\ \A n \in DOMAIN db1 \ except : db1[n].parent_id = db2[n].parent_id

(* ------------------------------- claims -------------------------------- *)

\* C1: a successful moveNodeAndSubtree(sourceId, newParentId) leaves the set of
\* stored nodes unchanged and every node other than sourceId keeps its parent_id.
C1_MoveChangesOnlySource ==
    (ret.op = "move" /\ ret.status = "ok")
        => SameParentsExcept(nodes, ret.before, {ret.src})

\* C2: after any sequence of createNode, deleteNode and service-level
\* moveNodeAndSubtree calls, every non-null parent_id names a stored node.
C2_NoOrphans == NoOrphans(nodes)

\* C3: after any sequence of createNode and service-level moveNodeAndSubtree
\* calls, no node is its own ancestor.
C3_NoCycles == NoCycles(nodes)

\* C5: a move whose newParentId is a direct or indirect descendant of sourceId
\* (another node below it: sourceId = newParentId is the self-move of C8) is
\* rejected as a descendant-move and leaves the store as it was.
C5_DescendantMoveRejected ==
    (/\ ret.op = "move"
     /\ ret.dst # ret.src
     /\ ret.dst \in DescendantIds(ret.before, ret.src))
        => (ret.status = "descendant_move" /\ nodes = ret.before)

\* C5 witness: a move under an indirect descendant (a grandchild) was rejected.
C5_Witness ==
    /\ ret.op = "move"
    /\ ret.status = "descendant_move"
    /\ ret.dst \in DOMAIN nodes
    /\ nodes[ret.dst].parent_id \notin {Null, ret.src}
    /\ nodes[ret.dst].parent_id \in DOMAIN nodes
    /\ nodes[nodes[ret.dst].parent_id].parent_id = ret.src

\* C6: a move whose sourceId names no stored node fails as source-not-found,
\* whatever newParentId is, and leaves the store as it was.
C6_MissingSourceNotFound ==
    (ret.op = "move" /\ ret.src \notin DOMAIN ret.before)
        => (ret.status = "source_not_found" /\ nodes = ret.before)

C8_RedundantAndSelfMoveRejected ==
    ret.op = "move" =>
        /\ ret.src = ret.dst => (ret.status = "self_move" /\ nodes = ret.before)
        /\ (ret.src \in DOMAIN ret.before /\ ret.before[ret.src].parent_id = ret.dst)
              => (ret.status = "noop_move" /\ nodes = ret.before)

\* C8 witness: moving a root node to null was rejected as redundant.
C8_Witness ==
    /\ ret.op = "move"
    /\ ret.status = "noop_move"
    /\ ret.dst = Null
    /\ ret.src \in DOMAIN nodes

\* C9: createNode with a well-formed parentId that names no stored node fails as
\* parent-not-found and writes nothing.
C9_CreateUnderMissingParent ==
    (/\ ret.op = "create"
     /\ ret.label \in Labels
     /\ ret.dst > 0
     /\ ret.dst \notin DOMAIN ret.before)
        => (ret.status = "parent_not_found" /\ nodes = ret.before)

\* C9 witness: the rejected createNode on an empty store; the row count stays 0.
C9_Witness ==
    /\ ret.op = "create"
    /\ ret.status = "parent_not_found"
    /\ DOMAIN nodes = {}

\* C4: under every interleaving of two concurrent moves that are each legal
\* against the initial store, the store that results once both calls have
\* returned successfully and the transaction is over has no parent_id cycle.
C4_NoCycleAfterConcurrentMoves ==
    (/\ \A t \in Tasks :
            tasks[t].op = "move" /\ tasks[t].pc = "done" /\ tasks[t].status = "ok"
     /\ ~txn.active)
        => NoCycles(nodes)

\* C10: the ids returned by successful createNode calls are pairwise distinct
\* positive integers, under every interleaving of concurrent createNode calls,
\* and each call returns the row it inserted itself (its own label and parent_id).
C10_CreatedIdsDistinct ==
    /\ \A i \in Ids : returned[i] <= 1
    /\ \A i \in DOMAIN nodes : i > 0 /\ i <= seq
    /\ \A t \in Tasks :
          (tasks[t].pc = "done" /\ tasks[t].op = "create" /\ tasks[t].status = "ok")
              => /\ tasks[t].node.id > 0
                 /\ tasks[t].node.id = tasks[t].newId
                 /\ returned[tasks[t].node.id] = 0
                 /\ tasks[t].node.label = tasks[t].label
                 /\ tasks[t].node.parent_id = tasks[t].dst

\* C10 witness: two createNode calls with different labels overlap: t1 has
\* inserted row 1 and has not read it back yet, while t2 has inserted row 2,
\* read it back and finished successfully with its own row.
C10_Witness ==
    /\ tasks["t1"].op = "create" /\ tasks["t1"].pc = "c_read" /\ tasks["t1"].newId = 1
    /\ tasks["t2"].op = "create" /\ tasks["t2"].pc = "done" /\ tasks["t2"].status = "ok"
    /\ tasks["t2"].node.id = 2
    /\ tasks["t1"].label # tasks["t2"].label

(* --------------------------- forests and lists ------------------------- *)

\* The rows a forest stands for, in pre-order: each tree node with the id of the
\* tree node whose children list holds it (parentId for the top level).
RECURSIVE ForestRows(_, _)
ForestRows(forest, parentId) ==
    IF forest = <<>> THEN <<>>
    ELSE <<[id |-> Head(forest).id, label |-> Head(forest).label, parent_id |-> parentId]>>
             \o ForestRows(Head(forest).children, Head(forest).id)
             \o ForestRows(Tail(forest), parentId)

\* The rows of the table, as a set.
RowSet(db) == {getNodeById(db, i) : i \in DOMAIN db}

\* The elements of a list, as a set.
Elements(list) == {list[k] : k \in 1..Len(list)}

\* C11: on a store with no orphans and no cycles, getAllTrees returns a forest
\* that holds every stored node exactly once, roots at the top level and every
\* other node in the children of its parent, so its node count is the row
\* count; on an empty store it returns [].
C11_ForestHoldsEveryNodeOnce ==
    (ret.op = "getAllTrees" /\ NoOrphans(ret.before) /\ NoCycles(ret.before))
        => LET rows == ForestRows(ret.value, Null)
           IN /\ Len(rows) = Cardinality(DOMAIN ret.before)
              /\ Elements(rows) = RowSet(ret.before)
              /\ (ret.before = <<>> => ret.value = <<>>)

\* C11 witness: getAllTrees returned for a healthy store of three nodes with a
\* root, a child and a grandchild.
C11_Witness ==
    /\ ret.op = "getAllTrees"
    /\ NoOrphans(ret.before) /\ NoCycles(ret.before)
    /\ Cardinality(DOMAIN ret.before) = 3
    /\ Len(ret.value) = 1
    /\ Len(ret.value[1].children) = 1
    /\ Len(ret.value[1].children[1].children) = 1

\* C12: buildHierarchy returns the same result for every ordering of the same
\* node list under the same rootParentId.
C12_HierarchyIgnoresInputOrder ==
    ret.op = "buildHierarchy"
        => \A other \in Orderings(ret.list) : buildHierarchy(other, ret.dst) = ret.value

\* The list in reverse order.
RECURSIVE Reverse(_)
Reverse(list) ==
    IF list = <<>> THEN <<>> ELSE Reverse(Tail(list)) \o <<Head(list)>>

\* The {id, label} of each row of the list.
IdAndLabel(list) == [k \in 1..Len(list) |-> [id |-> list[k].id, label |-> list[k].label]]

\* list is the chain of stored rows above nodeId, nearest parent first, followed
\* until a row has no parent or its parent is not stored.
IsChainAbove(db, nodeId, list) ==
    /\ \A k \in 1..Len(list) :
          /\ list[k] = getNodeById(db, list[k].id)
          /\ list[k].id \in DOMAIN db
          /\ list[k].id = (IF k = 1 THEN db[nodeId].parent_id ELSE list[k - 1].parent_id)
    /\ LET top == IF list = <<>> THEN db[nodeId].parent_id ELSE list[Len(list)].parent_id
       IN top = Null \/ top \notin DOMAIN db

\* C13: in a store without cycles, getAncestors(n) of an existing n lists n's
\* ancestors nearest parent first to the top of the chain and excludes n;
\* getPathToNode(n) is the reverse of that list with n appended; getPathToNode
\* returns the empty list exactly when n is not stored.
C13_AncestorsAndPathAgree ==
    /\ (ret.op = "getAncestors" /\ NoCycles(ret.before) /\ ret.src \in DOMAIN ret.before)
          => /\ IsChainAbove(ret.before, ret.src, ret.value)
             /\ ret.src \notin IdsOf(ret.value)
    /\ (ret.op = "getPathToNode" /\ NoCycles(ret.before))
          => /\ (ret.value = <<>>) <=> (ret.src \notin DOMAIN ret.before)
             /\ ret.src \in DOMAIN ret.before
                   => ret.value =
                        Reverse(IdAndLabel(getAncestors(ret.before, ret.src)))
                            \o IdAndLabel(<<getNodeById(ret.before, ret.src)>>)

\* C13 witness: getPathToNode returned [root, child, grandchild] for the
\* grandchild of a chain of three nodes.
C13_Witness ==
    /\ ret.op = "getPathToNode"
    /\ NoCycles(ret.before) /\ NoOrphans(ret.before)
    /\ Len(ret.value) = 3
    /\ ret.value[3].id = ret.src
    /\ ret.before[ret.value[1].id].parent_id = Null

\* C14: in every store that create, move and delete can build, every stored
\* node n has a depth and a path, and getNodeDepth(n) = length(getPathToNode(n)) - 1.
C14_DepthIsPathLengthLessOne ==
    \A n \in DOMAIN nodes :
        /\ AncestorsReturn(nodes, n)
        /\ PathReturns(nodes, n)
        /\ getNodeDepth(nodes, n) = Len(getPathToNode(nodes, n)) - 1

\* The ids reached from nodeId by following parent_id links one or more times.
ReachedByParentLinks(db, nodeId) == AncestorIdSet(db, nodeId)

C16_AncestorIdsAreIdsOfAncestors ==
    (ret.op = "getAncestorIds" /\ AncestorsReturn(ret.before, ret.src))
        => LET ancestors == getAncestors(ret.before, ret.src)
           IN ret.value = [k \in 1..Len(ancestors) |-> ancestors[k].id]

\* C17: in every store that create, move and delete can build, for all stored a
\* and b with a above b, both subtree sizes exist and
\* getSubtreeSize(a) >= getSubtreeSize(b) + 1.
C17_SubtreeSizeGrowsUpwards ==
    \A a \in DOMAIN nodes, b \in DOMAIN nodes :
        a \in AncestorIdSet(nodes, b)
            => /\ DescendantsReturn(nodes, a)
               /\ DescendantsReturn(nodes, b)
               /\ getSubtreeSize(nodes, a) >= getSubtreeSize(nodes, b) + 1

\* The number of issues of the given type that name nodeId.
IssueCount(issues, type, nodeId) ==
    Cardinality({k \in 1..Len(issues) : issues[k] = [type |-> type, nodeId |-> nodeId]})

\* C18: after any sequence of createNode calls on the empty store,
\* validateTreeStructure() reports isValid = true, no issues, totalNodes = the
\* number of stored nodes and rootNodes = the number of nodes with parent_id null.
C18_CreatedStoreIsValid ==
    ret.op = "validateTreeStructure"
        => /\ ret.value.isValid
           /\ ret.value.issues = <<>>
           /\ ret.value.totalNodes = Cardinality(DOMAIN ret.before)
           /\ ret.value.rootNodes =
                 Cardinality({n \in DOMAIN ret.before : ret.before[n].parent_id = Null})

\* C18 witness: validateTreeStructure() returned for a store of three created
\* nodes of which at least one has a parent.
C18_Witness ==
    /\ ret.op = "validateTreeStructure"
    /\ Cardinality(DOMAIN ret.before) = 3
    /\ \E n \in DOMAIN ret.before : ret.before[n].parent_id # Null
    /\ ret.value.totalNodes = 3

\* The examined rows as a table.
ListAsStore(list) ==
    [i \in IdsOf(list) |->
        LET row == CHOOSE r \in Elements(list) : r.id = i
        IN [label |-> row.label, parent_id |-> row.parent_id]]

\* C19: validateTreeStructure emits one orphaned_node issue for each examined
\* node whose non-null parent_id is absent from the examined set, one
\* circular_reference issue for each examined node on a parent_id cycle of that
\* set, nothing else, and isValid is true iff there is no issue.
C19_IssuesMatchExaminedSet ==
    ret.op = "validateTreeStructure"
        => LET set == ListAsStore(ret.list)
               issues == ret.value.issues
           IN /\ ret.value.isValid <=> (issues = <<>>)
              /\ \A n \in DOMAIN set :
                    /\ IssueCount(issues, "orphaned_node", n) =
                          (IF set[n].parent_id # Null /\ set[n].parent_id \notin DOMAIN set
                           THEN 1 ELSE 0)
                    /\ IssueCount(issues, "circular_reference", n) =
                          (IF n \in AncestorIdSet(set, n) THEN 1 ELSE 0)
              /\ \A k \in 1..Len(issues) :
                    /\ issues[k].nodeId \in DOMAIN set
                    /\ issues[k].type \in {"orphaned_node", "circular_reference"}

\* C20: every traversal that is called returns, whatever the table holds.
C20_TraversalsTerminate ==
    \A t \in Tasks : (tasks[t].pc \notin {"idle", "done"}) ~> (tasks[t].pc = "done")


(* --------------------- queries: createMultipleNodes --------------------- *)

\* The longest array handed to a bulk operation.
MaxBatch == MaxNodes - 1

\* The entries of nodeData.
Entries == [label : Labels, parentId : ParentArgs]

\* The arrays of at most n entries, the empty one included.
NodeData(n) == UNION {[1..k -> Entries] : k \in 0..n}

\* Which statement of a batch the store fails: none, the first or the last INSERT
\* issued, or the COMMIT.
BatchFaults == {"none", "first_insert", "last_insert", "commit"}

\* The index of the failing INSERT among the entries (0: none of them).
BatchFaultIndex(fault, nodeData) ==
    IF fault = "first_insert" THEN 1
    ELSE IF fault = "last_insert" THEN Len(nodeData)
    ELSE 0

\* The for loop of queries.createMultipleNodes from entry i on: parent check,
\* INSERT, read the inserted row back, push it.
RECURSIVE InsertEntries(_, _, _, _, _, _)
InsertEntries(db, sq, nodeData, i, failing, createdNodes) ==
    IF i > Len(nodeData)
    THEN [status |-> "ok", db |-> db, seq |-> sq, createdNodes |-> createdNodes]
    ELSE LET data == nodeData[i]
         IN IF data.parentId # Null /\ ~nodeExists(db, data.parentId)
            THEN [status |-> "parent_not_found", db |-> db, seq |-> sq,
                  createdNodes |-> createdNodes]
            ELSE IF i = failing
            THEN [status |-> "store_failure", db |-> db, seq |-> sq,
                  createdNodes |-> createdNodes]
            ELSE LET newId == sq + 1
                     db2 == InsertRow(db, data.label, data.parentId, newId)
                 IN InsertEntries(db2, newId, nodeData, i + 1, failing,
                                  Append(createdNodes, getNodeById(db2, newId)))

\* Mutant of the catch block: rethrow without rolling back.
BatchCatchNoRollback(written, snapshot) == written

\* The catch block of queries.createMultipleNodes: roll back, then rethrow.  The
\* table and its sequence are as they were at BEGIN.
BatchCatch(written, snapshot) ==
    [db |-> rollbackTransaction(written.db, snapshot.db), seq |-> snapshot.seq]

\* queries.createMultipleNodes, run with no other request on the connection.
Queries_createMultipleNodes(db, sq, nodeData, fault) ==
    IF Len(nodeData) = 0
    THEN [status |-> "invalid_input", db |-> db, seq |-> sq, createdNodes |-> <<>>]
    ELSE LET snapshot == [db |-> beginTransaction(db), seq |-> sq]
             r == InsertEntries(db, sq, nodeData, 1,
                                BatchFaultIndex(fault, nodeData), <<>>)
             written == [db |-> r.db, seq |-> r.seq]
             restored == BatchCatch(written, snapshot)
         IN IF r.status # "ok"
            THEN [status |-> r.status, db |-> restored.db, seq |-> restored.seq,
                  createdNodes |-> <<>>]
            ELSE IF fault = "commit"
            THEN [status |-> "store_failure", db |-> restored.db, seq |-> restored.seq,
                  createdNodes |-> <<>>]
            ELSE [status |-> "ok", db |-> r.db, seq |-> r.seq,
                  createdNodes |-> r.createdNodes]

\* One createMultipleNodes call, from the call to its return.  The store can fail
\* a statement only in a call that gets as far as issuing one.
CreateMultipleNodes ==
    /\ ret = NoCall
    /\ \E n \in 0..MaxBatch :
        /\ seq + n <= MaxNodes
        /\ \E nodeData \in NodeData(n), fault \in BatchFaults :
            LET r == Queries_createMultipleNodes(nodes, seq, nodeData, fault)
            IN /\ fault # "none" => r.status = "store_failure"
               /\ nodes' = r.db
               /\ seq' = r.seq
               /\ ret' = [op |-> "batch", src |-> Null, dst |-> Null, label |-> fault,
                          status |-> r.status, node |-> NoRow, count |-> 0,
                          before |-> nodes, list |-> nodeData,
                          value |-> r.createdNodes]
               /\ UNCHANGED concurrent

NextBatch == CreateNode \/ CreateMultipleNodes \/ Return

\* createNode and createMultipleNodes calls, handled one at a time.
SpecBatch == Init /\ [][NextBatch]_vars

\* The rows a batch's entries become when every one of them is inserted, the
\* first with id sq + 1.
BatchRows(nodeData, sq) ==
    [k \in 1..Len(nodeData) |->
        [id |-> sq + k, label |-> nodeData[k].label, parent_id |-> nodeData[k].parentId]]

\* Every entry names as parent nothing, a node stored before the call, or a node
\* of an earlier entry.
BatchParentsExist(db, sq, nodeData) ==
    \A k \in 1..Len(nodeData) :
        \/ nodeData[k].parentId = Null
        \/ nodeData[k].parentId \in DOMAIN db
        \/ nodeData[k].parentId \in (sq + 1)..(sq + k - 1)

\* C21: a createMultipleNodes call run on its own is all-or-nothing.  A call in
\* which an entry fails (its parent is missing, or the store fails a statement)
\* rejects and leaves the table as it was before the call, entries inserted
\* before the failing one included; a call in which every entry succeeds adds
\* exactly its entries' rows and returns them in input order.
C21_BatchIsAllOrNothing ==
    ret.op = "batch" =>
        LET sq == Cardinality(DOMAIN ret.before)
            rows == BatchRows(ret.list, sq)
            allSucceed == /\ Len(ret.list) > 0
                          /\ ret.label = "none"
                          /\ BatchParentsExist(ret.before, sq, ret.list)
        IN IF allSucceed
           THEN /\ ret.status = "ok"
                /\ ret.value = rows
                /\ DOMAIN nodes = DOMAIN ret.before \cup {rows[k].id : k \in 1..Len(rows)}
                /\ \A k \in 1..Len(rows) : getNodeById(nodes, rows[k].id) = rows[k]
                /\ \A i \in DOMAIN ret.before : nodes[i] = ret.before[i]
           ELSE /\ ret.status # "ok"
                /\ ret.value = <<>>
                /\ nodes = ret.before

\* A batch whose first entry was inserted and whose second entry named a missing
\* parent: the call rejected and the table is as before.
C21_Witness ==
    /\ ret.op = "batch"
    /\ ret.status = "parent_not_found"
    /\ Len(ret.list) = 2
    /\ ret.list[1].parentId = Null
    /\ ret.before # <<>>
    /\ nodes = ret.before


(* ------------- a batch among concurrent requests, by awaits ------------- *)

\* A createMultipleNodes call in progress: the array it was given, the index of
\* the entry it is at, and the rows it has pushed.
BatchTask(pc, nodeData, entry, createdNodes) ==
    [pc |-> pc, op |-> "batch", src |-> Null, dst |-> Null, label |-> "",
     sourceNode |-> NoRow, descendants |-> <<>>, newId |-> Null, status |-> "",
     node |-> NoRow, nodeData |-> nodeData, entry |-> entry,
     createdNodes |-> createdNodes]

\* The head of the for loop: the next await of the batch at its entry.
AtEntry(task, entry, createdNodes) ==
    LET at == [task EXCEPT !.entry = entry, !.createdNodes = createdNodes]
    IN IF entry > Len(task.nodeData) THEN [at EXCEPT !.pc = "b_commit"]
       ELSE IF task.nodeData[entry].parentId # Null THEN [at EXCEPT !.pc = "b_exists"]
       ELSE [at EXCEPT !.pc = "b_insert"]

\* queries.createMultipleNodes: await dbConnection.beginTransaction()
BatchBegin(t) ==
    /\ tasks[t].pc = "b_begin"
    /\ txn' = ConnBegin(txn, nodes, seq)
    /\ tasks' = [tasks EXCEPT ![t] = AtEntry(tasks[t], 1, <<>>)]
    /\ UNCHANGED <<nodes, seq, ret, returned, svc, conn>>

\* queries.createMultipleNodes: await this.nodeExists(data.parentId)
BatchCheckParent(t) ==
    /\ tasks[t].pc = "b_exists"
    /\ tasks' = [tasks EXCEPT ![t] =
            IF nodeExists(nodes, tasks[t].nodeData[tasks[t].entry].parentId)
            THEN [tasks[t] EXCEPT !.pc = "b_insert"]
            ELSE [tasks[t] EXCEPT !.pc = "b_catch", !.status = "parent_not_found"]]
    /\ UNCHANGED <<nodes, seq, ret, txn, returned, svc, conn>>

\* queries.createMultipleNodes: await dbConnection.run(INSERT ...)
BatchInsert(t) ==
    /\ tasks[t].pc = "b_insert"
    /\ seq < MaxNodes
    /\ LET data == tasks[t].nodeData[tasks[t].entry]
       IN /\ nodes' = InsertRow(nodes, data.label, data.parentId, seq + 1)
          /\ seq' = seq + 1
          /\ tasks' = [tasks EXCEPT ![t] =
                  [tasks[t] EXCEPT !.pc = "b_read", !.newId = seq + 1]]
    /\ UNCHANGED <<ret, txn, returned, svc, conn>>

\* queries.createMultipleNodes: await this.getNodeById(result.id), push the
\* row, and on to the next entry.
BatchReadBack(t) ==
    /\ tasks[t].pc = "b_read"
    /\ LET newNode == getNodeById(nodes, tasks[t].newId)
       IN tasks' = [tasks EXCEPT ![t] =
               AtEntry(tasks[t], tasks[t].entry + 1,
                       Append(tasks[t].createdNodes, newNode))]
    /\ UNCHANGED <<nodes, seq, ret, txn, returned, svc, conn>>

\* queries.createMultipleNodes: await dbConnection.commitTransaction()
BatchCommit(t) ==
    /\ tasks[t].pc = "b_commit"
    /\ \E fault \in {"none", "commit"} :
        IF fault = "none"
        THEN /\ txn' = NoTxn
             /\ tasks' = [tasks EXCEPT ![t] = Finished(tasks[t], "ok", NoRow)]
        ELSE /\ txn' = txn
             /\ tasks' = [tasks EXCEPT ![t] =
                     [tasks[t] EXCEPT !.pc = "b_catch", !.status = "store_failure"]]
    /\ UNCHANGED <<nodes, seq, ret, returned, svc, conn>>

\* queries.createMultipleNodes, catch: await dbConnection.rollbackTransaction()
BatchRollback(t) ==
    /\ tasks[t].pc = "b_catch"
    /\ LET back == ConnRollback(txn, nodes, seq)
       IN /\ nodes' = back.nodes
          /\ seq' = back.seq
    /\ txn' = NoTxn
    /\ tasks' = [tasks EXCEPT ![t] = Finished(tasks[t], tasks[t].status, NoRow)]
    /\ UNCHANGED <<ret, returned, svc, conn>>

\* A getAllNodes call in progress, and the rows it got.
ReaderTask(pc, value) ==
    [pc |-> pc, op |-> "getAllNodes", src |-> Null, dst |-> Null, label |-> "",
     sourceNode |-> NoRow, descendants |-> <<>>, newId |-> Null, status |-> "",
     node |-> NoRow, value |-> value]

\* queries.getAllNodes: await dbConnection.all(SELECT ...); getAllTrees nests
\* these rows.
ReadAllNodes(t) ==
    /\ tasks[t].pc = "r_all"
    /\ tasks' = [tasks EXCEPT ![t] =
            [ReaderTask("done", getAllNodes(nodes)) EXCEPT !.status = "ok"]]
    /\ UNCHANGED <<nodes, seq, ret, txn, returned, svc, conn>>

\* The label of the entries of the batch of client t: no other request of the
\* race writes it.
BatchLabel(t) == IF t = "t1" THEN "b1" ELSE "b2"

\* The arrays of one or two entries client t can hand to createMultipleNodes.
BatchesOf(t) ==
    UNION {[1..k -> [label : {BatchLabel(t)}, parentId : {Null} \cup IdArgs]] :
           k \in 1..MaxBatch}

\* What the second client asks for: a batch of its own, a read of all nodes, a
\* legal move, or a createNode.
RivalCalls(db) ==
    {BatchTask("b_begin", nodeData, 1, <<>>) : nodeData \in BatchesOf("t2")}
    \cup {ReaderTask("r_all", <<>>)}
    \cup {[IdleTask EXCEPT !.pc = "m_get", !.op = "move", !.src = s, !.dst = p] :
            s \in {x \in Ids : LegalMove(db, x, Null)}, p \in {Null}}
    \cup {[IdleTask EXCEPT !.pc = IF p = Null THEN "c_insert" ELSE "c_exists",
                           !.op = "create", !.label = "a", !.dst = p] :
            p \in {Null} \cup IdArgs}

\* The first client hands a batch to createMultipleNodes while the second
\* client's request is under way on the same connection.
InitBatchRace ==
    /\ nodes \in {<<>>} \cup {db \in CreatedStores : Cardinality(DOMAIN db) = 2}
    /\ seq = Cardinality(DOMAIN nodes)
    /\ ret = NoCall
    /\ txn = NoTxn
    /\ returned = NoneReturned
    /\ svc = NewService
    /\ conn = TestConnection
    /\ \E nodeData \in BatchesOf("t1"), rival \in RivalCalls(nodes) :
        /\ seq + Len(nodeData) <= MaxNodes
        /\ tasks = [t \in Tasks |->
                      IF t = "t1" THEN BatchTask("b_begin", nodeData, 1, <<>>) ELSE rival]

NextBatchRace ==
    \E t \in Tasks :
        \/ BatchBegin(t)
        \/ BatchCheckParent(t)
        \/ BatchInsert(t)
        \/ BatchReadBack(t)
        \/ BatchCommit(t)
        \/ BatchRollback(t)
        \/ ReadAllNodes(t)
        \/ CreateCheckParent(t)
        \/ CreateInsert(t)
        \/ CreateReadBack(t)
        \/ MoveGetSource(t)
        \/ MoveBegin(t)
        \/ MoveReadSource(t)
        \/ MoveReadDescendants(t)
        \/ MoveWrite(t)
        \/ MoveCommit(t)
        \/ MoveReadResult(t)
        \/ MoveRollback(t)
        \/ TaskReturn(t)

\* One createMultipleNodes call and one other request, interleaved at every await.
SpecBatchRace == InitBatchRace /\ [][NextBatchRace]_vars

\* The rows of a list that carry the label.
Labelled(list, label) == {k \in 1..Len(list) : list[k] # NoRow /\ list[k].label = label}

\* C22: under every interleaving of a createMultipleNodes batch with a reader, a
\* move or another batch, once the batch has failed no row of it is among the rows
\* a getAllNodes call has returned, and none is stored.
C22_FailedBatchIsInvisible ==
    \A b \in Tasks :
        (tasks[b].op = "batch" /\ tasks[b].pc = "done" /\ tasks[b].status # "ok") =>
            /\ \A i \in DOMAIN nodes : nodes[i].label # BatchLabel(b)
            /\ \A r \in Tasks :
                (tasks[r].op = "getAllNodes" /\ tasks[r].pc = "done") =>
                    Labelled(tasks[r].value, BatchLabel(b)) = {}

\* C27: a node whose createNode call has returned successfully is stored for as
\* long as no deleteNode or clearAllNodes is called, whatever transaction of
\* another request is rolled back meanwhile.
C27_ReturnedNodeStaysStored ==
    \A i \in Ids : returned[i] > 0 => i \in DOMAIN nodes


(* ---------------------- connection: close, connect ---------------------- *)

\* The rows of schema.sql's INSERT OR IGNORE INTO nodes (id, label, parent_id).
SampleRows ==
    <<[id |-> 1, label |-> "root", parent_id |-> Null],
      [id |-> 3, label |-> "bear", parent_id |-> 1],
      [id |-> 4, label |-> "cat", parent_id |-> 3],
      [id |-> 7, label |-> "frog", parent_id |-> 1]>>

\* INSERT OR IGNORE of rows k.. with their explicit ids: a row whose id is stored
\* is skipped; an inserted id raises the table's sequence to at least that id.
RECURSIVE InsertOrIgnore(_, _, _, _)
InsertOrIgnore(db, sq, rows, k) ==
    IF k > Len(rows) THEN [db |-> db, seq |-> sq]
    ELSE IF rows[k].id \in DOMAIN db THEN InsertOrIgnore(db, sq, rows, k + 1)
    ELSE InsertOrIgnore(InsertRow(db, rows[k].label, rows[k].parent_id, rows[k].id),
                        IF rows[k].id > sq THEN rows[k].id ELSE sq, rows, k + 1)

\* initializeSchema: db.exec of the whole schema file.  CREATE TABLE / INDEX IF
\* NOT EXISTS change nothing on an existing table; schema.sql goes on to insert
\* its sample rows, schema-test.sql has no INSERT.
initializeSchema(db, sq, schemaPath) ==
    IF schemaPath = "schema.sql" THEN InsertOrIgnore(db, sq, SampleRows, 1)
    ELSE [db |-> db, seq |-> sq]

\* The process is up: its connection has been opened on a new database file.
InitConnected ==
    /\ \E schemaPath \in SchemaFiles :
        /\ conn = [schemaPath |-> schemaPath, open |-> TRUE]
        /\ nodes = initializeSchema(<<>>, 0, schemaPath).db
        /\ seq = initializeSchema(<<>>, 0, schemaPath).seq
    /\ ret = NoCall
    /\ txn = NoTxn
    /\ tasks = [t \in Tasks |-> IdleTask]
    /\ returned = NoneReturned
    /\ svc = NewService

\* dbConnection.close()
Close ==
    /\ ret = NoCall
    /\ conn.open
    /\ conn' = [conn EXCEPT !.open = FALSE]
    /\ ret' = [NoCall EXCEPT !.op = "close", !.status = "ok", !.before = nodes]
    /\ UNCHANGED <<nodes, seq, txn, tasks, returned, svc>>

\* dbConnection.connect(): open the database file, then initializeSchema().
Connect ==
    /\ ret = NoCall
    /\ ~conn.open
    /\ LET r == initializeSchema(nodes, seq, conn.schemaPath)
       IN /\ nodes' = r.db
          /\ seq' = r.seq
    /\ conn' = [conn EXCEPT !.open = TRUE]
    /\ ret' = [NoCall EXCEPT !.op = "connect", !.status = "ok", !.before = nodes]
    /\ UNCHANGED <<txn, tasks, returned, svc>>

NextReconnect ==
    \/ conn.open /\ CreateNode
    \/ conn.open /\ DeleteNode
    \/ Close
    \/ Connect
    \/ Return

\* createNode and deleteNode calls on an open connection, and the connection
\* closed and opened again between them.
SpecReconnect == InitConnected /\ [][NextReconnect]_vars

\* C23: closing the connection and connecting again leaves the stored nodes as
\* they were: getAllTrees() returns after the reconnection the forest it returned
\* before it.
C23_ReconnectKeepsForest ==
    ret.op = "connect" => getAllTrees(nodes) = getAllTrees(ret.before)


\* C24: deleteNode(id) of a stored node removes that node and all its direct and
\* indirect descendants and nothing else, leaves the other rows as they were,
\* returns the number of rows removed, and leaves no row whose parent_id names a
\* removed node; deleteNode of an id that is not stored removes nothing and
\* returns 0.
C24_DeleteRemovesExactlySubtree ==
    ret.op = "delete" =>
        IF ret.src \in DOMAIN ret.before
        THEN LET removed == {ret.src} \cup DescendantIds(ret.before, ret.src)
             IN /\ DOMAIN nodes = DOMAIN ret.before \ removed
                /\ \A i \in DOMAIN nodes : nodes[i] = ret.before[i]
                /\ ret.count = Cardinality(removed)
                /\ \A i \in DOMAIN nodes : nodes[i].parent_id \notin removed
        ELSE /\ nodes = ret.before
             /\ ret.count = 0


(* -------------- createNode and deleteNode requests, by awaits ----------- *)

\* queries.deleteNode is called.
CallDelete(t) ==
    /\ tasks[t].pc = "idle"
    /\ \E id \in IdArgs :
        tasks' = [tasks EXCEPT ![t] =
            [IdleTask EXCEPT !.pc = "d_desc", !.op = "delete", !.src = id]]
    /\ UNCHANGED <<nodes, seq, ret, txn, returned, svc, conn>>

\* queries.deleteNode: await this.getAllDescendants(id) (the whole walk as one
\* read of the table).
DeleteReadDescendants(t) ==
    /\ tasks[t].pc = "d_desc"
    /\ DescendantsReturn(nodes, tasks[t].src)
    /\ tasks' = [tasks EXCEPT ![t] =
            [tasks[t] EXCEPT !.pc = "d_delete",
                             !.descendants = getAllDescendants(nodes, tasks[t].src)]]
    /\ UNCHANGED <<nodes, seq, ret, txn, returned, svc, conn>>

\* queries.deleteNode: await dbConnection.run(DELETE ... WHERE id IN (...)) with
\* the ids collected before.
DeleteRun(t) ==
    /\ tasks[t].pc = "d_delete"
    /\ nodes' = DeleteRows(nodes, {tasks[t].src} \cup IdsOf(tasks[t].descendants))
    /\ tasks' = [tasks EXCEPT ![t] = Finished(tasks[t], "ok", NoRow)]
    /\ UNCHANGED <<seq, ret, txn, returned, svc, conn>>

NextCreateDelete ==
    \E t \in Tasks :
        \/ CallCreate(t)
        \/ CreateCheckParent(t)
        \/ CreateInsert(t)
        \/ CreateReadBack(t)
        \/ CallDelete(t)
        \/ DeleteReadDescendants(t)
        \/ DeleteRun(t)
        \/ TaskReturn(t)

\* createNode and deleteNode requests of two clients, interleaved at every await.
SpecCreateDelete == Init /\ [][NextCreateDelete]_vars

\* C25: whenever the createNode and deleteNode requests under way have all
\* finished, no stored node has a parent_id that names a missing node: a create
\* under a node being deleted either failed before writing or had its row
\* removed with the parent.
C25_NoOrphanAfterCreateDeleteRace ==
    (\A t \in Tasks : tasks[t].pc \in {"idle", "done"}) => NoOrphans(nodes)


(* ---------------------- service: getTreeByRootId ------------------------ *)

\* null, where a tree is expected.
NoTree == [id |-> Null, label |-> "", children |-> <<>>]

\* service.getTreeByRootId: the node, its descendants, buildHierarchy of the two
\* with the default rootParentId (null), and the first tree built, if any.
getTreeByRootId(db, rootId) ==
    LET rootNode == getNodeById(db, rootId)
    IN IF rootNode = NoRow THEN NoTree
       ELSE LET descendants == getAllDescendants(db, rootId)
                allNodes == <<rootNode>> \o descendants
                trees == buildHierarchy(allNodes, Null)
            IN IF Len(trees) > 0 THEN trees[1] ELSE NoTree

\* One getTreeByRootId request.
GetTreeByRootId ==
    /\ ret = NoCall
    /\ \E rootId \in IdArgs :
        /\ DescendantsReturn(nodes, rootId)
        /\ ret' = Answer("getTreeByRootId", rootId, Null, <<>>,
                         getTreeByRootId(nodes, rootId))
    /\ UNCHANGED <<nodes, seq>>
    /\ UNCHANGED concurrent

NextTree == CreateNode \/ GetTreeByRootId \/ Return

\* createNode calls on the empty table, and getTreeByRootId of what they built.
SpecTree == Init /\ [][NextTree]_vars

\* The tree below a stored node: the node with, nested under it and ascending by
\* id, the trees below its children.
RECURSIVE SubtreeOf(_, _)
SubtreeOf(db, id) ==
    LET children == getChildrenByParentId(db, id)
    IN [id |-> id, label |-> db[id].label,
        children |-> [k \in 1..Len(children) |-> SubtreeOf(db, children[k].id)]]

\* C26: getTreeByRootId(id) returns null exactly when no node has that id, and
\* for a stored node, root or not, the tree whose top node is that node with all
\* its descendants nested beneath it.
C26_TreeOfEveryStoredNode ==
    ret.op = "getTreeByRootId" =>
        IF ret.src \in DOMAIN nodes
        THEN ret.value = SubtreeOf(nodes, ret.src)
        ELSE ret.value = NoTree


(* --------------------- queries: updateMultipleNodes --------------------- *)

\* A field an update entry does not have (undefined).
Undefined == -2
NoLabel == "undefined"

\* The entries of updates: an id (or none), and optionally a label and a parentId.
UpdateEntries ==
    [id : {Null} \cup Ids, label : {NoLabel, "b"},
     parentId : {Undefined, Null} \cup IdArgs]

\* The arrays of one to n entries.
Updates(n) == UNION {[1..k -> UpdateEntries] : k \in 1..n}

\* UPDATE nodes SET label = ?, parent_id = ? WHERE id = ?, with the fields the
\* entry has.
UpdateRow(db, update) ==
    [db EXCEPT ![update.id] =
        [label |-> IF update.label # NoLabel THEN update.label ELSE @.label,
         parent_id |-> IF update.parentId # Undefined THEN update.parentId
                       ELSE @.parent_id]]

\* The for loop of queries.updateMultipleNodes from entry i on.  The parent of
\* an entry is only checked to exist.
RECURSIVE UpdateEntriesFrom(_, _, _, _, _)
UpdateEntriesFrom(db, updates, i, failing, updatedNodes) ==
    IF i > Len(updates)
    THEN [status |-> "ok", db |-> db, updatedNodes |-> updatedNodes]
    ELSE LET update == updates[i]
             failed(status) == [status |-> status, db |-> db, updatedNodes |-> updatedNodes]
         IN IF update.id = Null THEN failed("missing_id")
            ELSE IF /\ update.parentId # Undefined
                    /\ update.parentId # Null
                    /\ ~nodeExists(db, update.parentId)
            THEN failed("parent_not_found")
            ELSE IF update.label = NoLabel /\ update.parentId = Undefined
            THEN UpdateEntriesFrom(db, updates, i + 1, failing, updatedNodes)
            ELSE IF i = failing THEN failed("store_failure")
            ELSE IF update.id \notin DOMAIN db THEN failed("not_found")
            ELSE LET db2 == UpdateRow(db, update)
                 IN UpdateEntriesFrom(db2, updates, i + 1, failing,
                                      Append(updatedNodes, getNodeById(db2, update.id)))

\* The catch block of queries.updateMultipleNodes: roll back, then rethrow.
UpdateCatch(db, snapshot) == rollbackTransaction(db, snapshot)

\* queries.updateMultipleNodes, run with no other request on the connection.
Queries_updateMultipleNodes(db, updates, fault) ==
    LET snapshot == beginTransaction(db)
        r == UpdateEntriesFrom(db, updates, 1, FaultIndex(fault, updates), <<>>)
    IN IF r.status # "ok"
       THEN [status |-> r.status, db |-> UpdateCatch(r.db, snapshot), updatedNodes |-> <<>>]
       ELSE IF fault = "commit"
       THEN [status |-> "store_failure", db |-> UpdateCatch(r.db, snapshot),
             updatedNodes |-> <<>>]
       ELSE r

\* One updateMultipleNodes call, from the call to its return.
UpdateMultipleNodes ==
    /\ ret = NoCall
    /\ \E updates \in Updates(MaxBatch), fault \in Faults :
        LET r == Queries_updateMultipleNodes(nodes, updates, fault)
        IN /\ fault # "none" => r.status = "store_failure"
           /\ nodes' = r.db
           /\ seq' = seq
           /\ ret' = [op |-> "update", src |-> Null, dst |-> Null, label |-> fault,
                      status |-> r.status, node |-> NoRow, count |-> 0,
                      before |-> nodes, list |-> updates, value |-> r.updatedNodes]
           /\ UNCHANGED concurrent

NextCreateUpdate == CreateNode \/ UpdateMultipleNodes \/ Return

\* createNode and updateMultipleNodes calls, handled one at a time.
SpecCreateUpdate == Init /\ [][NextCreateUpdate]_vars

\* C28: after any sequence of createNode and updateMultipleNodes calls no node
\* is its own parent and none is its own ancestor.
C28_UpdatesKeepForest ==
    \A n \in DOMAIN nodes :
        /\ nodes[n].parent_id # n
        /\ n \notin AncestorIdSet(nodes, n)


(* ------------------ service: initialize, close, reset ------------------- *)

\* The operations that begin with await this.initialize(): the service methods,
\* and the controller's health check.
ServiceOps ==
    {"getAllTrees", "createNode", "getTreeByRootId", "getNodeWithSubtree", "getStats",
     "getPathToNode", "getDetailedStats", "moveNodeAndSubtree", "healthCheck"}

\* A service call in progress.  afterClose: it was made after a close() had
\* succeeded and before any reset(); touched: it has reached dbInit or the
\* table; counted: its call of dbInit.initialize() is among svc.initCalls.
ServiceTask(pc, op, afterClose) ==
    [pc |-> pc, op |-> op, src |-> Null, dst |-> Null, label |-> "",
     sourceNode |-> NoRow, descendants |-> <<>>, newId |-> Null, status |-> "",
     node |-> NoRow, afterClose |-> afterClose, touched |-> FALSE, counted |-> FALSE]

\* Mutant of the first check of initialize(): no shutdown check.
NeverShutDown(service) == FALSE

\* initialize(): if (this.isShutdown) throw ...
ShutDown(service) == service.isShutdown

\* What an operation does once initialize() has returned: the health check
\* answers, the service methods go on to their queries.
AfterInitialize(task) ==
    IF task.op = "healthCheck" THEN Finished(task, "ok", NoRow)
    ELSE [task EXCEPT !.pc = "o_body"]

\* An operation is called and runs initialize() up to its first await: the
\* shutdown check, then dbInit.initialize() if this.initialized is not set.
CallOperation(t) ==
    /\ tasks[t].pc = "idle"
    /\ \E op \in ServiceOps :
        LET call == ServiceTask("idle", op, svc.closed)
        IN IF ShutDown(svc)
           THEN /\ tasks' = [tasks EXCEPT ![t] = Finished(call, "shut_down", NoRow)]
                /\ svc' = svc
           ELSE IF ~svc.initialized
           THEN /\ tasks' = [tasks EXCEPT ![t] =
                        [call EXCEPT !.pc = "i_await", !.touched = TRUE, !.counted = TRUE]]
                /\ svc' = [svc EXCEPT !.initCalls = @ + 1]
           ELSE /\ tasks' = [tasks EXCEPT ![t] = AfterInitialize(call)]
                /\ svc' = svc
    /\ UNCHANGED <<nodes, seq, ret, txn, returned, conn>>

\* initialize(): dbInit.initialize() resolves and this.initialized is set, or it
\* rejects and the operation fails.
InitializeDone(t) ==
    /\ tasks[t].pc = "i_await"
    /\ \E resolved \in BOOLEAN :
        IF resolved
        THEN /\ svc' = [svc EXCEPT !.initialized = TRUE]
             /\ tasks' = [tasks EXCEPT ![t] = AfterInitialize(tasks[t])]
        ELSE /\ svc' = [svc EXCEPT !.initCalls = IF tasks[t].counted THEN @ - 1 ELSE @]
             /\ tasks' = [tasks EXCEPT ![t] = Finished(tasks[t], "init_failed", NoRow)]
    /\ UNCHANGED <<nodes, seq, ret, txn, returned, conn>>

\* The operation's own queries; what they do to the table is not followed here.
OperationBody(t) ==
    /\ tasks[t].pc = "o_body"
    /\ tasks' = [tasks EXCEPT ![t] =
            Finished([tasks[t] EXCEPT !.touched = TRUE], "ok", NoRow)]
    /\ UNCHANGED <<nodes, seq, ret, txn, returned, svc, conn>>

\* close() is called: await dbInit.close()
CallClose(t) ==
    /\ tasks[t].pc = "idle"
    /\ tasks' = [tasks EXCEPT ![t] = ServiceTask("x_await", "close", svc.closed)]
    /\ UNCHANGED <<nodes, seq, ret, txn, returned, svc, conn>>

\* Mutant of close(): this.initialized reset, this.isShutdown left alone.
ClosedNotShutDown(service) ==
    [service EXCEPT !.initialized = FALSE, !.closed = TRUE]

\* close(), after dbInit.close() has resolved: both flags are set.
Closed(service) ==
    [service EXCEPT !.initialized = FALSE, !.isShutdown = TRUE, !.closed = TRUE]

\* close(): dbInit.close() resolves and the flags are set, or it rejects and
\* close() throws 'Failed to close service'.
CloseDone(t) ==
    /\ tasks[t].pc = "x_await"
    /\ \E resolved \in BOOLEAN :
        IF resolved
        THEN /\ svc' = Closed(svc)
             /\ tasks' = [tasks EXCEPT ![t] = Finished(tasks[t], "ok", NoRow)]
        ELSE /\ svc' = svc
             /\ tasks' = [tasks EXCEPT ![t] = Finished(tasks[t], "close_failed", NoRow)]
    /\ UNCHANGED <<nodes, seq, ret, txn, returned, conn>>

\* reset(): both flags cleared.  Calls of dbInit.initialize() still in flight
\* were made before it.
Reset ==
    /\ svc' = NewService
    /\ tasks' = [t \in Tasks |->
                   IF tasks[t].pc = "i_await" THEN [tasks[t] EXCEPT !.counted = FALSE]
                   ELSE tasks[t]]
    /\ UNCHANGED <<nodes, seq, ret, txn, returned, conn>>

NextLifecycle ==
    \/ \E t \in Tasks :
        \/ CallOperation(t)
        \/ InitializeDone(t)
        \/ OperationBody(t)
        \/ CallClose(t)
        \/ CloseDone(t)
        \/ TaskReturn(t)
    \/ Reset

\* Service operations, close() and reset() of two clients, interleaved at
\* every await.
SpecLifecycle == Init /\ [][NextLifecycle]_vars

\* C29: between construction (or reset()) and close(), dbInit.initialize() is
\* called at most once, rejected calls aside, however many operations call
\* initialize() and whenever they start.
C29_DatabaseInitialisedOnce == svc.initCalls <= 1

\* C30: an operation called after a close() has succeeded and before any reset()
\* has failed with the shutdown error without reaching dbInit or the table; and a
\* close() whose dbInit.close() fails leaves both flags as they were.
C30_ShutDownUntilReset ==
    /\ [](\A t \in Tasks :
            (tasks[t].op \in ServiceOps /\ tasks[t].afterClose) =>
                /\ tasks[t].pc = "done"
                /\ tasks[t].status = "shut_down"
                /\ ~tasks[t].touched)
    /\ [][\A t \in Tasks :
            (tasks[t].pc = "x_await" /\ tasks'[t].pc = "done"
                /\ tasks'[t].status = "close_failed") =>
                /\ svc'.initialized = svc.initialized
                /\ svc'.isShutdown = svc.isShutdown]_vars

\* An operation called after a successful close() has failed with the shutdown
\* error, while the other client's close() has just failed.
C30_Witness ==
    \E t, u \in Tasks :
        /\ tasks[t].op \in ServiceOps
        /\ tasks[t].afterClose
        /\ tasks[t].status = "shut_down"
        /\ tasks[u].op = "close"
        /\ tasks[u].status = "close_failed"

====
